---- MODULE Spec2Model ----
(***************************************************************************)
(* Decision tree construction and node indexing of disarm64_gen            *)
(* (src/disarm64_gen/src/decision_tree.rs).                                *)
(*                                                                         *)
(* An instruction word is an integer in 0 .. 2^BitWidth - 1 (u32 in the    *)
(* source).  A tree (Option<Box<DecisionTreeNode>>) is a function from     *)
(* node positions to nodes: the position of a node is the sequence of      *)
(* 0/1 turns from the root, the root is << >>, and a child that is None    *)
(* is a position outside the function's domain.  An Rc<Insn> is the        *)
(* position of the instruction in the input slice.                         *)
(***************************************************************************)
EXTENDS Integers, Sequences, FiniteSets, TLC

\* Width of an instruction word in the model (u32 in the source).
BitWidth == 2
\* Longest input slice given to build_decision_tree.
MaxRules == 3

\* Option::None of an index field.
None == -1

VARIABLES rules, pc, stack, tree, indexing

vars == <<rules, pc, stack, tree, indexing>>

----------------------------------------------------------------------------
\* u32 arithmetic

WordLimit == 2 ^ BitWidth
Words == 0 .. (WordLimit - 1)
\* !0u32
AllOnes == WordLimit - 1

RECURSIVE BitAnd(_, _)
BitAnd(x, y) ==
    IF x = 0 \/ y = 0 THEN 0
    ELSE (x % 2) * (y % 2) + 2 * BitAnd(x \div 2, y \div 2)

BitNot(x) == AllOnes - x

Bit(x, b) == (x \div (2 ^ b)) % 2

RECURSIVE CountOnes(_)
CountOnes(x) == IF x = 0 THEN 0 ELSE (x % 2) + CountOnes(x \div 2)

\* Faulty variant: the key counts the ones, so the broadest mask sorts first
CountZerosAscending(x) == CountOnes(x)

\* u32::count_zeros
CountZeros(x) == BitWidth - CountOnes(x)

RECURSIVE TrailingZeros(_)
\* u32::trailing_zeros
TrailingZeros(x) ==
    IF x = 0 THEN BitWidth
    ELSE IF x % 2 = 1 THEN 0 ELSE 1 + TrailingZeros(x \div 2)

\* Faulty variant: the shift is forgotten
Shl1Unshifted(b) == 1

\* 1u32.shl(decision_bit)
Shl1(b) == (2 ^ b) % WordLimit

BitsOf(x) == {b \in 0 .. (BitWidth - 1) : Bit(x, b) = 1}

----------------------------------------------------------------------------
\* Input: instructions accepted by parse_insn_description

ValidInsns ==
    {r \in [opcode : Words, mask : Words] :
        r.mask # 0 /\ BitAnd(r.opcode, BitNot(r.mask)) = 0}

RuleSeqs == UNION {[1 .. n -> ValidInsns] : n \in 0 .. MaxRules}

----------------------------------------------------------------------------
\* Tree nodes and positions

ZeroChild(p) == Append(p, 0)
OneChild(p) == Append(p, 1)

Leaf(insns) == [kind |-> "Leaf", index |-> None, insns |-> insns, decision_bit |-> None]
Branch(bit) == [kind |-> "Branch", index |-> None, insns |-> << >>, decision_bit |-> bit]

EmptyTree == << >>

\* *decision_tree = Some(Box::new(node))
SetNode(t, p, node) == (p :> node) @@ t

----------------------------------------------------------------------------
\* build_decision_tree_recursive

\* A call of build_decision_tree_recursive: with two or more instructions the
\* checks at entry pass and the call is at the head of its loop.
Frame(path, insns) ==
    [path |-> path, insns |-> insns,
     pc |-> IF Len(insns) > 1 THEN "loop" ELSE "entry",
     decision_bit |-> None, one |-> << >>]

Top == stack[Len(stack)]
Pop == SubSeq(stack, 1, Len(stack) - 1)
SetTop(f) == [stack EXCEPT ![Len(stack)] = f]
AfterReturn == IF Len(stack) = 1 THEN "index" ELSE "build"

RECURSIVE AccMaskFrom(_, _, _)
AccMaskFrom(insns, k, acc) ==
    IF k > Len(insns) THEN acc
    ELSE AccMaskFrom(insns, k + 1, BitAnd(acc, insns[k].mask))

\* insns.iter().fold(!0u32, |acc, insn| acc & insn.mask)
AccMask(insns) == AccMaskFrom(insns, 1, AllOnes)

DecisionBit(insns) == TrailingZeros(AccMask(insns))
DecisionMask(insns) == Shl1(DecisionBit(insns))

\* Faulty variant: the decision bit stays in the mask
KeepBit(mask, decision_mask) == mask

\* node.mask &= !decision_mask
ClearBit(mask, decision_mask) == BitAnd(mask, BitNot(decision_mask))

Cleared(insns, decision_mask) ==
    [k \in 1 .. Len(insns) |-> [insns[k] EXCEPT !.mask = ClearBit(@, decision_mask)]]

\* Faulty variant: every node is pushed to zero, whatever its opcode
ZeroGroupTakesAll(insns, decision_mask) == Cleared(insns, decision_mask)

\* The nodes pushed to zero, in order, the decision bit cleared
ZeroGroup(insns, decision_mask) ==
    LET InZero(node) == BitAnd(rules[node.insn].opcode, decision_mask) = 0
    IN  SelectSeq(Cleared(insns, decision_mask), InZero)

\* The nodes pushed to one, in order, the decision bit cleared
OneGroup(insns, decision_mask) ==
    LET InOne(node) == BitAnd(rules[node.insn].opcode, decision_mask) # 0
    IN  SelectSeq(Cleared(insns, decision_mask), InOne)

\* Faulty variant: the test for an empty group is lost
NeverEmpty(group) == FALSE

\* zero.is_empty(), one.is_empty()
IsEmpty(group) == group = << >>

RECURSIVE SortFrom(_, _)
SortFrom(insns, key) ==
    IF key > BitWidth THEN << >>
    ELSE LET HasKey(node) == CountZeros(node.mask) = key
         IN  SelectSeq(insns, HasKey) \o SortFrom(insns, key + 1)

\* Faulty variant: the Leaf keeps the order of the group
Unsorted(insns) == insns

\* insns.sort_by_key(|insn| insn.mask.count_zeros()): stable, ascending key
SortByKey(insns) == SortFrom(insns, 0)

----------------------------------------------------------------------------
\* assign_indexes

\* Faulty variant: the counter is not advanced
NoIncrement(index) == index

\* *index += 1
NextIndex(index) == index + 1

\* Faulty variant: the one subtree is numbered before the zero subtree
RECURSIVE AssignIndexesDfsOneFirst(_, _, _)
AssignIndexesDfsOneFirst(t, p, index) ==
    IF p \notin DOMAIN t THEN [tree |-> t, index |-> index]
    ELSE LET numbered == [t EXCEPT ![p].index = index]
         IN  IF t[p].kind = "Leaf"
             THEN [tree |-> numbered, index |-> NextIndex(index)]
             ELSE LET one == AssignIndexesDfsOneFirst(numbered, OneChild(p), NextIndex(index))
                  IN  AssignIndexesDfsOneFirst(one.tree, ZeroChild(p), one.index)

RECURSIVE AssignIndexesDfs(_, _, _)
\* The result is the tree with the subtree at p numbered from index on, and
\* the value of *index after the call.
AssignIndexesDfs(t, p, index) ==
    IF p \notin DOMAIN t THEN [tree |-> t, index |-> index]
    ELSE LET numbered == [t EXCEPT ![p].index = index]
         IN  IF t[p].kind = "Leaf"
             THEN [tree |-> numbered, index |-> NextIndex(index)]
             ELSE LET zero == AssignIndexesDfs(numbered, ZeroChild(p), NextIndex(index))
                  IN  AssignIndexesDfs(zero.tree, OneChild(p), zero.index)

RECURSIVE BfsLoop(_, _, _)
\* while let Some(node) = queue.pop(): Vec::pop takes the LAST element.
BfsLoop(t, queue, index) ==
    IF queue = << >> THEN t
    ELSE LET p == queue[Len(queue)]
             rest == SubSeq(queue, 1, Len(queue) - 1)
         IN  IF p \notin DOMAIN t THEN BfsLoop(t, rest, index)
             ELSE LET numbered == [t EXCEPT ![p].index = index]
                  IN  IF t[p].kind = "Leaf"
                      THEN BfsLoop(numbered, rest, NextIndex(index))
                      ELSE BfsLoop(numbered,
                                   Append(Append(rest, ZeroChild(p)), OneChild(p)),
                                   NextIndex(index))

AssignIndexesBfs(t) == BfsLoop(t, << << >> >>, 0)

----------------------------------------------------------------------------
\* The state machine

\* insns.iter().map(|insn| LeafNode { insn: insn.clone(), mask: insn.mask })
LeafNodes(insns) == [i \in 1 .. Len(insns) |-> [mask |-> insns[i].mask, insn |-> i]]

\* Before the call of build_decision_tree
Init ==
    /\ rules = << >>
    /\ pc = "start"
    /\ stack = << >>
    /\ tree = EmptyTree
    /\ indexing = "None"

\* build_decision_tree(insns, ..) up to its call of build_decision_tree_recursive
BuildDecisionTree ==
    /\ pc = "start"
    /\ \E insns \in RuleSeqs :
          /\ rules' = insns
          /\ stack' = << Frame(<< >>, LeafNodes(insns)) >>
    /\ pc' = "build"
    /\ UNCHANGED <<tree, indexing>>

\* if insns.is_empty() { return; }
ReturnEmpty ==
    /\ pc = "build"
    /\ Top.pc = "entry"
    /\ Len(Top.insns) = 0
    /\ stack' = Pop
    /\ pc' = AfterReturn
    /\ UNCHANGED <<rules, tree, indexing>>

\* if insns.len() == 1 { *decision_tree = Leaf; return; }
ReturnSingle ==
    /\ pc = "build"
    /\ Top.pc = "entry"
    /\ Len(Top.insns) = 1
    /\ tree' = SetNode(tree, Top.path, Leaf(Top.insns))
    /\ stack' = Pop
    /\ pc' = AfterReturn
    /\ UNCHANGED <<rules, indexing>>

\* A pass that finds acc_mask == 0: sort, emit the Leaf, break, return
EmitLeaf ==
    /\ pc = "build"
    /\ Top.pc = "loop"
    /\ AccMask(Top.insns) = 0
    /\ tree' = SetNode(tree, Top.path, Leaf(SortByKey(Top.insns)))
    /\ stack' = Pop
    /\ pc' = AfterReturn
    /\ UNCHANGED <<rules, indexing>>

\* A pass whose zero group is empty: insns = one; continue
RetryOne ==
    /\ pc = "build"
    /\ Top.pc = "loop"
    /\ AccMask(Top.insns) # 0
    /\ IsEmpty(ZeroGroup(Top.insns, DecisionMask(Top.insns)))
    /\ stack' = SetTop([Top EXCEPT !.insns = OneGroup(Top.insns, DecisionMask(Top.insns))])
    /\ UNCHANGED <<rules, pc, tree, indexing>>

\* A pass whose one group is empty: insns = zero; continue
RetryZero ==
    /\ pc = "build"
    /\ Top.pc = "loop"
    /\ AccMask(Top.insns) # 0
    /\ ~IsEmpty(ZeroGroup(Top.insns, DecisionMask(Top.insns)))
    /\ IsEmpty(OneGroup(Top.insns, DecisionMask(Top.insns)))
    /\ stack' = SetTop([Top EXCEPT !.insns = ZeroGroup(Top.insns, DecisionMask(Top.insns))])
    /\ UNCHANGED <<rules, pc, tree, indexing>>

\* A pass with both groups filled: build_decision_tree_recursive(&mut zero_tree, zero, ..)
CallZero ==
    /\ pc = "build"
    /\ Top.pc = "loop"
    /\ AccMask(Top.insns) # 0
    /\ ~IsEmpty(ZeroGroup(Top.insns, DecisionMask(Top.insns)))
    /\ ~IsEmpty(OneGroup(Top.insns, DecisionMask(Top.insns)))
    /\ stack' = Append(SetTop([Top EXCEPT !.pc = "zero_built",
                                          !.decision_bit = DecisionBit(Top.insns),
                                          !.one = OneGroup(Top.insns, DecisionMask(Top.insns))]),
                       Frame(ZeroChild(Top.path), ZeroGroup(Top.insns, DecisionMask(Top.insns))))
    /\ UNCHANGED <<rules, pc, tree, indexing>>

\* build_decision_tree_recursive(&mut one_tree, one, ..)
CallOne ==
    /\ pc = "build"
    /\ Top.pc = "zero_built"
    /\ stack' = Append(SetTop([Top EXCEPT !.pc = "one_built"]),
                       Frame(OneChild(Top.path), Top.one))
    /\ UNCHANGED <<rules, pc, tree, indexing>>

\* *decision_tree = Branch { decision_bit, zero: zero_tree, one: one_tree }; break; return
EmitBranch ==
    /\ pc = "build"
    /\ Top.pc = "one_built"
    /\ tree' = SetNode(tree, Top.path, Branch(Top.decision_bit))
    /\ stack' = Pop
    /\ pc' = AfterReturn
    /\ UNCHANGED <<rules, indexing>>

\* assign_indexes, one action per value of the indexing argument.  The
\* argument is read nowhere before this point, so its value is drawn here.
AssignIndexesNone ==
    /\ pc = "index"
    /\ indexing' = "None"
    /\ pc' = "done"
    /\ UNCHANGED <<rules, stack, tree>>

AssignIndexesDFS ==
    /\ pc = "index"
    /\ indexing' = "DFS"
    /\ tree' = AssignIndexesDfs(tree, << >>, 0).tree
    /\ pc' = "done"
    /\ UNCHANGED <<rules, stack>>

AssignIndexesBFS ==
    /\ pc = "index"
    /\ indexing' = "BFS"
    /\ tree' = AssignIndexesBfs(tree)
    /\ pc' = "done"
    /\ UNCHANGED <<rules, stack>>

Next ==
    \/ BuildDecisionTree
    \/ ReturnEmpty
    \/ ReturnSingle
    \/ EmitLeaf
    \/ RetryOne
    \/ RetryZero
    \/ CallZero
    \/ CallOne
    \/ EmitBranch
    \/ AssignIndexesNone
    \/ AssignIndexesDFS
    \/ AssignIndexesBFS

Spec == Init /\ [][Next]_vars

\* The program is one thread that runs until build_decision_tree returns.
FairSpec == Spec /\ WF_vars(Next)

----------------------------------------------------------------------------
\* Reading the tree

Done == pc = "done"
Nodes == DOMAIN tree
Leaves == {p \in Nodes : tree[p].kind = "Leaf"}
Branches == {p \in Nodes : tree[p].kind = "Branch"}

IsPrefix(p, q) == Len(p) <= Len(q) /\ SubSeq(q, 1, Len(p)) = p
\* The nodes of the subtree at position p, p included
Subtree(p) == {q \in Nodes : IsPrefix(p, q)}
\* The Branch nodes passed on the way from the root to position p
Ancestors(p) == {SubSeq(p, 1, j) : j \in 0 .. (Len(p) - 1)}
PathBits(p) == {tree[a].decision_bit : a \in Ancestors(p) \cap Nodes}

\* The places <<leaf, position in the leaf's list>> of the tree
Entries == {e \in Leaves \X (1 .. MaxRules) : e[2] <= Len(tree[e[1]].insns)}
EntryNode(e) == tree[e[1]].insns[e[2]]

SetMin(S) == CHOOSE x \in S : \A y \in S : x <= y

RECURSIVE WalkFrom(_, _)
\* The decoder's walk: where it stops, a Leaf or an absent child
WalkFrom(p, w) ==
    IF p \notin Nodes \/ tree[p].kind = "Leaf" THEN p
    ELSE WalkFrom(Append(p, Bit(w, tree[p].decision_bit)), w)

Walk(w) == WalkFrom(<< >>, w)

Matches(i, w) == BitAnd(w, rules[i].mask) = rules[i].opcode
AllMatches(w) == {i \in 1 .. Len(rules) : Matches(i, w)}
\* The places of Leaf p whose rule matches w, for matching the rules among all
LeafMatches(p, all) == {k \in 1 .. Len(tree[p].insns) : tree[p].insns[k].insn \in all}
FirstMatch(p, all) == tree[p].insns[SetMin(LeafMatches(p, all))].insn

\* i is the match of highest priority among the matching input rules all
IsBest(i, all) ==
    /\ i \in all
    /\ LET ones == CountOnes(rules[i].mask)
       IN  \A j \in all :
              \/ CountOnes(rules[j].mask) < ones
              \/ CountOnes(rules[j].mask) = ones /\ i <= j

DecodesCorrectly(w) ==
    LET p == Walk(w)
        all == AllMatches(w)
    IN  /\ p \in Leaves
        /\ IF LeafMatches(p, all) = {} THEN all = {}
           ELSE IsBest(FirstMatch(p, all), all)

----------------------------------------------------------------------------
\* Properties

\* C1 as stated: for every rule sequence and every word the walk reaches a
\* Leaf whose first match is the most specific, earliest match of the input.
C1_DecodeAnyInput == Done => \A w \in Words : DecodesCorrectly(w)

\* C1, amended: for every NON-EMPTY rule sequence and every word, the walk
\* reaches a Leaf; the first rule of that Leaf matching the word on its
\* original mask and opcode is, among all input rules matching the word, the
\* one with the most set mask bits, earliest in input order among equals; and
\* if no rule of the Leaf matches, no input rule matches.
C1_DecodeNonEmptyInput == (Done /\ rules # << >>) => \A w \in Words : DecodesCorrectly(w)

C1_Witness ==
    /\ Done
    /\ Branches # {}
    /\ \E w \in Words :
          /\ Walk(w) \in Leaves
          /\ Cardinality(LeafMatches(Walk(w), AllMatches(w))) >= 2
          /\ FirstMatch(Walk(w), AllMatches(w)) # SetMin(AllMatches(w))

\* C2 (coverage): every input rule is at exactly one place of exactly one
\* Leaf, and every place of a Leaf holds an input rule.
C2_Coverage ==
    Done => LET places == Entries
            IN  /\ \A i \in 1 .. Len(rules) :
                      Cardinality({e \in places : EntryNode(e).insn = i}) = 1
                /\ \A p \in Leaves : Len(tree[p].insns) <= MaxRules
                /\ \A e \in places : EntryNode(e).insn \in 1 .. Len(rules)

C2_Witness ==
    /\ Done
    /\ Len(rules) = 3
    /\ Cardinality(Leaves) = 2
    /\ \E p \in Leaves : Len(tree[p].insns) = 2

\* C3 (no empty branch): every Branch has both children present and each of
\* its two subtrees holds at least one rule.
C3_NoEmptyBranch ==
    Done => LET places == Entries
            IN  \A p \in Branches :
                    /\ ZeroChild(p) \in Nodes
                    /\ OneChild(p) \in Nodes
                    /\ \E e \in places : IsPrefix(ZeroChild(p), e[1])
                    /\ \E e \in places : IsPrefix(OneChild(p), e[1])

\* A Branch emitted after a pass that did not discriminate
C3_Witness ==
    /\ Done
    /\ << >> \in Branches
    /\ tree[<< >>].decision_bit # TrailingZeros(AccMask(rules))

\* C4 as stated: path decision bits together with the remaining mask are
\* exactly the original mask.
C4_MaskConserved ==
    Done => \A e \in Entries :
                PathBits(e[1]) \cup BitsOf(EntryNode(e).mask)
                    = BitsOf(rules[EntryNode(e).insn].mask)

\* C4, amended: the path's decision bits and the remaining mask are disjoint
\* subsets of the rule's original mask (no bit gained); a bit of the original
\* mask found in neither is one that every rule of that Leaf constrains in
\* its original mask, all with the same opcode value (a bit cleared by a
\* pass that did not discriminate).
C4_MaskNeverGains ==
    Done => \A p \in Leaves : \A k \in 1 .. Len(tree[p].insns) :
        LET tested == PathBits(p)
            orig == BitsOf(rules[tree[p].insns[k].insn].mask)
            left == BitsOf(tree[p].insns[k].mask)
            lost == orig \ (tested \cup left)
        IN  /\ tested \subseteq orig
            /\ left \subseteq orig
            /\ tested \cap left = {}
            /\ \A b \in lost : \A l \in 1 .. Len(tree[p].insns) :
                  /\ Bit(rules[tree[p].insns[l].insn].mask, b) = 1
                  /\ Bit(rules[tree[p].insns[l].insn].opcode, b)
                        = Bit(rules[tree[p].insns[k].insn].opcode, b)

C4_Witness ==
    /\ Done
    /\ \E e \in Entries :
          /\ PathBits(e[1]) # {}
          /\ PathBits(e[1]) \cup BitsOf(EntryNode(e).mask)
                # BitsOf(rules[EntryNode(e).insn].mask)

\* C5 (breadth-first numbering): with BFS indexing a node at a smaller depth
\* has a smaller index than any node at a larger depth.
C5_LevelOrder ==
    (Done /\ indexing = "BFS") =>
        \A a \in Nodes : \A b \in Nodes :
            Len(a) < Len(b) => tree[a].index < tree[b].index

\* C6 (indexing completeness): with DFS or BFS indexing every node has an
\* index, no two nodes share one, and the indices are exactly 0 .. N-1.
C6_IndexesComplete ==
    (Done /\ indexing \in {"DFS", "BFS"}) =>
        /\ \A p \in Nodes : tree[p].index # None
        /\ \A p \in Nodes : \A q \in Nodes : p # q => tree[p].index # tree[q].index
        /\ {tree[p].index : p \in Nodes} = 0 .. (Cardinality(Nodes) - 1)

C6_Witness == Done /\ indexing = "BFS" /\ Cardinality(Nodes) = 5

\* C7 (leaf priority order): in every Leaf the rules are in non-increasing
\* order of the set bits of the remaining mask, rules with equally many keep
\* their input order, and two rules with the same opcode and mask are in the
\* same Leaf, the earlier one first.
C7_LeafOrder ==
    Done =>
    /\ \A p \in Leaves : \A k \in 1 .. Len(tree[p].insns) : \A l \in 1 .. Len(tree[p].insns) :
          k < l =>
             \/ CountOnes(tree[p].insns[k].mask) > CountOnes(tree[p].insns[l].mask)
             \/ /\ CountOnes(tree[p].insns[k].mask) = CountOnes(tree[p].insns[l].mask)
                /\ tree[p].insns[k].insn < tree[p].insns[l].insn
    /\ \A i \in 1 .. Len(rules) : \A j \in 1 .. Len(rules) :
          (i < j /\ rules[i] = rules[j]) =>
             \E p \in Leaves : \E k \in 1 .. Len(tree[p].insns) : \E l \in 1 .. Len(tree[p].insns) :
                 k < l /\ tree[p].insns[k].insn = i /\ tree[p].insns[l].insn = j

C7_Witness ==
    /\ Done
    /\ \E e \in Entries : \E f \in Entries :
          e[1] = f[1] /\ e[2] < f[2] /\ EntryNode(e).insn > EntryNode(f).insn
    /\ \E i \in 1 .. Len(rules) : \E j \in 1 .. Len(rules) : i < j /\ rules[i] = rules[j]

\* C8 (depth-first numbering): with DFS indexing the root has index 0, every
\* Branch has a smaller index than every other node of its subtree, and every
\* node of its zero-subtree a smaller index than every node of its one-subtree.
C8_Preorder ==
    (Done /\ indexing = "DFS" /\ Nodes # {}) =>
        /\ tree[<< >>].index = 0
        /\ \A p \in Branches :
              /\ \A q \in Subtree(p) \ {p} : tree[p].index < tree[q].index
              /\ \A q \in Subtree(ZeroChild(p)) : \A r \in Subtree(OneChild(p)) :
                    tree[q].index < tree[r].index

C8_Witness ==
    /\ Done
    /\ indexing = "DFS"
    /\ Cardinality(Nodes) = 5
    /\ ZeroChild(<< >>) \in Branches

\* C9 (no bit tested twice): the decision bits of the Branches on any path
\* from the root are pairwise distinct, none of them is left in the remaining
\* mask of a rule below, and no path has more Branches than the word is wide.
C9_NoBitTwice ==
    Done =>
        /\ \A p \in Nodes : \A a \in Ancestors(p) : \A b \in Ancestors(p) :
              a # b => tree[a].decision_bit # tree[b].decision_bit
        /\ \A p \in Nodes : Len(p) <= BitWidth
        /\ \A p \in Leaves : \A b \in PathBits(p) : \A k \in 1 .. Len(tree[p].insns) :
              Bit(tree[p].insns[k].mask, b) = 0

C9_Witness ==
    /\ Done
    /\ \E p \in Leaves : Len(p) = 2 /\ Cardinality(PathBits(p)) = 2

\* One pass of the loop, as a step: the group it continues with has a
\* common mask with strictly fewer set bits.
RetryShrinks ==
    (/\ pc = "build" /\ pc' = "build"
     /\ Len(stack') = Len(stack)
     /\ Top.pc = "loop" /\ stack'[Len(stack)].pc = "loop")
    => CountOnes(AccMask(stack'[Len(stack)].insns)) < CountOnes(AccMask(Top.insns))

\* Every call in progress below the first was given a non-empty group
\* strictly smaller than its caller's.
CallsShrink ==
    \A k \in 2 .. Len(stack) :
        /\ stack[k].insns # << >>
        /\ Len(stack[k].insns) < Len(stack[k - 1].insns)

\* C10 (termination): build_decision_tree returns; a pass that continues the
\* loop does so with strictly fewer common mask bits, and every recursive
\* call gets a non-empty, strictly smaller group.
C10_Terminates == <>Done /\ [][RetryShrinks]_vars /\ []CallsShrink

C10_Witness ==
    /\ pc = "build"
    /\ Len(stack) >= 2
    /\ Top.pc = "loop"
    /\ \E k \in 1 .. Len(Top.insns) :
          Cardinality(BitsOf(rules[Top.insns[k].insn].mask) \ BitsOf(Top.insns[k].mask))
              > Len(Top.path)

====
